---- MODULE Spec2Model ----
(***************************************************************************)
(* novelint: a small scripting language.                                   *)
(*                                                                         *)
(*   src/src/main.rs   the minimal engine: parse_stmts compiles the        *)
(*                     statements Print / FnBegin / FnEnd / Call into a    *)
(*                     flat list, process_stmts runs it with one           *)
(*                     return-address slot.                                *)
(*   src/src/parse.rs  the instruction compiler: one Inst per statement,   *)
(*                     block offsets back-patched through waits_end_stack. *)
(*   src/src/lex.rs    the lexer.                                          *)
(*                                                                         *)
(* Indices are the source's 0-based Vec indices; At(l, k) reads l[k].      *)
(* Option<usize> is a set with at most one element: None is {}.            *)
(***************************************************************************)
EXTENDS Integers, Sequences, FiniteSets, TLC

\* ------------------------------------------------------------------ bounds
\* Longest statement list of the minimal engine (main.rs).
MaxStmts == 6

\* Most statements given to the instruction compiler (parse.rs).
MaxInsts == 5

\* Longest input line, and most input lines, given to the lexer (lex.rs).
MaxLineLen == 3

MaxRows == 2

\* Most operands of an expression given to the evaluator (exprs.rs).
MaxTerms == 3

\* usize::MAX, scaled down.
UsizeMax == 7

\* Subroutine names the inputs are drawn from.
Names == {"A", "B"}

VARIABLES
    \* main.rs, parse_stmts
    stmt_list,      \* Vec<StmtType>
    fns,            \* HashMap<String, usize>
    fn_start,       \* Option<usize>
    \* main.rs, main / process_stmts
    phase,          \* "idle" | "parse" | "run" | "done" | "exit" | "panic"
    i,              \* the program counter
    ret_idx,        \* Option<usize>: the return-address slot
    \* observers of the run (history, read by the properties only)
    outer_call,     \* the site of the last Call executed outside every sub body
    pending,        \* TRUE from that Call to the next FnEnd executed
    hits,           \* per index: executions since that Call, counted up to 2
    overwritten,    \* the return address the last nested Call overwrote
    \* parse.rs, parse
    insts,            \* Vec<Inst>
    waits_end_stack,  \* Vec<WaitsEnd>: stmts waiting for End
    subs,             \* HashMap<String, usize>: subroutines defined
    cphase,           \* "idle" | "compile" | "exit" | "run" | "done" | "error"
    stmt,             \* the statement compiled last: its rule and its name
    stmts,            \* the statements read so far, in order, comments left out
    \* the interpreter of the compiled Program (spec section 4.5)
    pc,               \* the program counter
    slot,             \* the return-address slot
    env,              \* variable name -> [value, mutable]
    \* observers of that run (history, read by the properties only)
    execs,            \* per index: executions, counted up to 2
    entered,          \* If/ElIf/Else whose branch body was entered
    tested,           \* If/ElIf whose guard was evaluated
    \* lex.rs, lex
    lines,            \* Vec<String>: the input split into lines
    idx,              \* the index of the line being scanned
    li,               \* i, the scan index in that line
    tks,              \* Vec<Token>
    lphase,           \* "idle" | "scan" | "ok" | "err" | "panic"
    lerr,             \* the Error returned
    \* exprs.rs, parse_stmt and eval of one expression
    expr_src,         \* the expression as written: operands and operators
    call_stack,       \* the variables: name -> [value, mutable]
    expr,             \* the Expr built by parse_stmt
    eval_res,         \* Result<usize, ExprRuntimeError>
    ephase            \* "idle" | "parse" | "eval" | "done" | "panic"

mainVars == <<stmt_list, fns, fn_start, phase, i, ret_idx>>
mainObs  == <<outer_call, pending, hits, overwritten>>
compVars == <<insts, waits_end_stack, subs, cphase, stmt, stmts>>
runVars  == <<pc, slot, env>>
runObs   == <<execs, entered, tested>>
lexVars  == <<lines, idx, li, tks, lphase, lerr>>
evalVars == <<expr_src, call_stack, expr, eval_res, ephase>>

vars == <<mainVars, mainObs, compVars, runVars, runObs, lexVars, evalVars>>

\* What the minimal engine, the compiler with its interpreter, and the lexer
\* each leave alone.
notMain == <<compVars, runVars, runObs, lexVars, evalVars>>
notComp == <<mainVars, mainObs, lexVars, evalVars>>
notLex  == <<mainVars, mainObs, compVars, runVars, runObs, evalVars>>
notEval == <<mainVars, mainObs, compVars, runVars, runObs, lexVars>>


\* ------------------------------------------------------------- helpers
At(l, k) == l[k + 1]

TheOne(s) == CHOOSE x \in s : TRUE

Min2(a, b) == IF a < b THEN a ELSE b

\* ------------------------------------------------ main.rs: parse_stmts
StmtPrint == [t |-> "Print", name |-> "", offset_to_end |-> 0]

StmtFnBegin(n) == [t |-> "FnBegin", name |-> n, offset_to_end |-> 0]

StmtFnEnd == [t |-> "FnEnd", name |-> "", offset_to_end |-> 0]

StmtCall(n) == [t |-> "Call", name |-> n, offset_to_end |-> 0]

\* fns.insert(fn_name, stmt_list.len()): a later entry replaces an earlier one.
FnsInsert(m, n, len) == [k \in (DOMAIN m) \cup {n} |-> IF k = n THEN len ELSE m[k]]

\* offset_to_end: stmt_list.len() - start, taken before the FnEnd is pushed.
FnEndOffset(len, start) == len - start

ZeroHits == [k \in 0..(MaxStmts - 1) |-> 0]

ZeroExecs == [k \in 0..MaxInsts |-> 0]

NoError == [kind |-> "", ch |-> "", row |-> 0, col |-> 0]

NoResult == [ok |-> FALSE, v |-> 0, err |-> ""]

NoExpr == [kind |-> "None"]

\* The expression evaluator, not started.
EvalIdle ==
    /\ expr_src = [terms |-> <<>>, ops |-> <<>>]
    /\ call_stack = <<>>
    /\ expr = NoExpr
    /\ eval_res = NoResult
    /\ ephase = "idle"

\* The lexer, not started.
LexIdle ==
    /\ lines = <<>>
    /\ idx = 0
    /\ li = 0
    /\ tks = <<>>
    /\ lphase = "idle"
    /\ lerr = NoError

\* The instruction compiler and its interpreter, not started.
NoStmt == [rule |-> "", name |-> ""]

CompIdle ==
    /\ insts = <<>>
    /\ waits_end_stack = <<>>
    /\ subs = <<>>
    /\ cphase = "idle"
    /\ stmt = NoStmt
    /\ stmts = <<>>
    /\ pc = 0
    /\ slot = {}
    /\ env = <<>>
    /\ execs = ZeroExecs
    /\ entered = {}
    /\ tested = {}

\* The minimal engine, not started.
MainIdle ==
    /\ stmt_list = <<>>
    /\ fns = <<>>
    /\ fn_start = {}
    /\ phase = "idle"
    /\ i = 0
    /\ ret_idx = {}
    /\ outer_call = {}
    /\ pending = FALSE
    /\ hits = ZeroHits
    /\ overwritten = {}

\* parse_stmts entered: the three locals are empty.
InitMain ==
    /\ CompIdle
    /\ LexIdle
    /\ EvalIdle
    /\ stmt_list = <<>>
    /\ fns = <<>>
    /\ fn_start = {}
    /\ phase = "parse"
    /\ i = 0
    /\ ret_idx = {}
    /\ outer_call = {}
    /\ pending = FALSE
    /\ hits = ZeroHits
    /\ overwritten = {}

ParsePrint ==
    /\ phase = "parse"
    /\ Len(stmt_list) < MaxStmts
    /\ stmt_list' = Append(stmt_list, StmtPrint)
    /\ UNCHANGED <<fns, fn_start, phase, i, ret_idx, mainObs, notMain>>

ParseFnBegin(n) ==
    /\ phase = "parse"
    /\ Len(stmt_list) < MaxStmts
    /\ IF fn_start # {}
       THEN /\ phase' = "exit"
            /\ UNCHANGED <<stmt_list, fns, fn_start>>
       ELSE /\ fn_start' = {Len(stmt_list)}
            /\ fns' = FnsInsert(fns, n, Len(stmt_list))
            /\ stmt_list' = Append(stmt_list, StmtFnBegin(n))
            /\ UNCHANGED phase
    /\ UNCHANGED <<i, ret_idx, mainObs, notMain>>

ParseFnEnd ==
    /\ phase = "parse"
    /\ Len(stmt_list) < MaxStmts
    /\ IF fn_start = {}
       THEN /\ phase' = "exit"
            /\ UNCHANGED <<stmt_list, fn_start>>
       ELSE LET start == TheOne(fn_start)
                patched == [stmt_list EXCEPT ![start + 1].offset_to_end =
                                FnEndOffset(Len(stmt_list), start)]
            IN  /\ fn_start' = {}
                /\ stmt_list' = Append(patched, StmtFnEnd)
                /\ UNCHANGED phase
    /\ UNCHANGED <<fns, i, ret_idx, mainObs, notMain>>

ParseCall(n) ==
    /\ phase = "parse"
    /\ Len(stmt_list) < MaxStmts
    /\ stmt_list' = Append(stmt_list, StmtCall(n))
    /\ UNCHANGED <<fns, fn_start, phase, i, ret_idx, mainObs, notMain>>

\* The statement loop ends, Some(Program) is returned and main hands it to
\* process_stmts, which starts with ret_idx = None and i = 0.
ParseDone ==
    /\ phase = "parse"
    /\ phase' = "run"
    /\ i' = 0
    /\ ret_idx' = {}
    /\ UNCHANGED <<stmt_list, fns, fn_start, mainObs, notMain>>

\* ---------------------------------------------- main.rs: process_stmts
Running == phase = "run" /\ i < Len(stmt_list)

Cur == At(stmt_list, i)

\* The index is inside the body of a sub: after a FnBegin and before its
\* FnEnd, or anywhere after a FnBegin that was never closed.
Closed(s) == At(stmt_list, s).offset_to_end > 0

InClosedBody(k) ==
    \E s \in 0..(Len(stmt_list) - 1) :
        /\ At(stmt_list, s).t = "FnBegin"
        /\ Closed(s)
        /\ s < k
        /\ k < s + At(stmt_list, s).offset_to_end

InOpenBody(k) ==
    \E s \in 0..(Len(stmt_list) - 1) :
        /\ At(stmt_list, s).t = "FnBegin"
        /\ ~Closed(s)
        /\ s < k

InBody(k) == InClosedBody(k) \/ InOpenBody(k)

Bump(h, k) == IF k \in DOMAIN h THEN [h EXCEPT ![k] = Min2(@ + 1, 2)] ELSE h

\* A jump that lands on the FnEnd instead of after it.
FnBeginTargetOnEnd(at, offset_to_end) == at + offset_to_end

\* i += offset_to_end + 1
FnBeginTarget(at, offset_to_end) == at + offset_to_end + 1

\* i = *idx + 1
CallTarget(start) == start + 1

\* A slot that holds the Call itself, and a slot that an inner Call leaves alone.
CallReturnSlotSelf(old, at) == {at}

CallReturnSlotKeep(old, at) == IF old = {} THEN {at + 1} ELSE old

\* ret_idx = Some(i+1)
CallReturnSlot(old, at) == {at + 1}

StepPrint ==
    /\ Running
    /\ Cur.t = "Print"
    /\ i' = i + 1
    /\ hits' = Bump(hits, i)
    /\ UNCHANGED <<stmt_list, fns, fn_start, phase, ret_idx>>
    /\ UNCHANGED <<outer_call, pending, overwritten, notMain>>

StepFnBegin ==
    /\ Running
    /\ Cur.t = "FnBegin"
    /\ i' = FnBeginTarget(i, Cur.offset_to_end)
    /\ hits' = Bump(hits, i)
    /\ UNCHANGED <<stmt_list, fns, fn_start, phase, ret_idx>>
    /\ UNCHANGED <<outer_call, pending, overwritten, notMain>>

StepCall ==
    /\ Running
    /\ Cur.t = "Call"
    /\ IF Cur.name \in DOMAIN fns
       THEN /\ ret_idx' = CallReturnSlot(ret_idx, i)
            /\ i' = CallTarget(fns[Cur.name])
            /\ UNCHANGED phase
            /\ overwritten' = IF ret_idx # {} THEN ret_idx ELSE overwritten
            /\ IF ~InBody(i)
               THEN /\ outer_call' = {i}
                    /\ pending' = TRUE
                    /\ hits' = ZeroHits
               ELSE /\ hits' = Bump(hits, i)
                    /\ UNCHANGED <<outer_call, pending>>
       ELSE /\ phase' = "panic"
            /\ UNCHANGED <<i, ret_idx, mainObs>>
    /\ UNCHANGED <<stmt_list, fns, fn_start, notMain>>

StepFnEnd ==
    /\ Running
    /\ Cur.t = "FnEnd"
    /\ IF ret_idx # {}
       THEN /\ i' = TheOne(ret_idx)
            /\ ret_idx' = {}
            /\ pending' = FALSE
            /\ hits' = Bump(hits, i)
            /\ UNCHANGED <<phase, outer_call, overwritten>>
       ELSE /\ phase' = "panic"
            /\ UNCHANGED <<i, ret_idx, mainObs>>
    /\ UNCHANGED <<stmt_list, fns, fn_start, notMain>>

\* while i < prog.stmts.len() fails: process_stmts returns.
StepHalt ==
    /\ phase = "run"
    /\ i >= Len(stmt_list)
    /\ phase' = "done"
    /\ UNCHANGED <<stmt_list, fns, fn_start, i, ret_idx, mainObs, notMain>>

NextMain ==
    \/ ParsePrint
    \/ \E n \in Names : ParseFnBegin(n)
    \/ ParseFnEnd
    \/ \E n \in Names : ParseCall(n)
    \/ ParseDone
    \/ StepPrint
    \/ StepFnBegin
    \/ StepCall
    \/ StepFnEnd
    \/ StepHalt

SpecMain == InitMain /\ [][NextMain]_vars

\* The interpreter loop always takes its next step (a key-press wait returns).
FairMain == SpecMain /\ WF_vars(NextMain)

\* --------------------------------------------------- exprs.rs: evaluation
\* IdentOrNum: Ident(String) | Num(usize).
Ident(n) == [kind |-> "Ident", name |-> n, num |-> 0]

Num(v) == [kind |-> "Num", name |-> "", num |-> v]

\* Result<usize, ExprRuntimeError>: IdentNotFound(name) when the lookup fails.
Ok(v) == [ok |-> TRUE, v |-> v, err |-> ""]

IdentNotFound(n) == [ok |-> FALSE, v |-> 0, err |-> n]

EvalIdentOrNum(e, vs) ==
    IF e.kind = "Ident"
    THEN IF e.name \in DOMAIN vs THEN Ok(vs[e.name].value) ELSE IdentNotFound(e.name)
    ELSE Ok(e.num)

Compare(op, l, r) ==
    CASE op = "<"  -> l < r
      [] op = ">"  -> l > r
      [] op = "==" -> l = r
      [] op = "!=" -> l # r
      [] op = "<=" -> l <= r
      [] op = ">=" -> l >= r

\* CompExpr::eval: lhs first, then rhs, each error returned at once.
EvalCompExpr(c, vs) ==
    LET l == EvalIdentOrNum(c.lhs, vs)
        r == EvalIdentOrNum(c.rhs, vs)
    IN  IF ~l.ok THEN [ok |-> FALSE, b |-> FALSE]
        ELSE IF ~r.ok THEN [ok |-> FALSE, b |-> FALSE]
        ELSE [ok |-> TRUE, b |-> Compare(c.op, l.v, r.v)]

\* ------------------------------------------------------ parse.rs: parse
\* The inputs of the compiler: variable names, guards and literal values.
VarNames == {"x"}

\* The names a Let or a Modify is given: the above, and a reserved one.
TargetNames == VarNames \cup {"_x"}

Conds == {[lhs |-> Ident("x"), op |-> "<", rhs |-> Num(1)]}

\* The guards of loops: the one above, and one that holds whatever is bound.
LoopConds == Conds \cup {[lhs |-> Num(0), op |-> "<", rhs |-> Num(1)]}

NoCond == [lhs |-> Num(0), op |-> "==", rhs |-> Num(0)]

Values == {0, 1}

\* name.starts_with("_")
StartsWithUnderscore(n) == n \in {"_x"}

\* An Inst. `offset` is offset_to_end (Sub, While, Else) or offset_to_next
\* (If, ElIf); the fields a variant does not have keep a fixed filler.
Inst(t, name, cond, val, is_mut) ==
    [t |-> t, name |-> name, cond |-> cond, offset |-> 0, val |-> val,
     is_mut |-> is_mut]

InstIll == Inst("Ill", "", NoCond, 0, FALSE)

InstEnd == Inst("End", "", NoCond, 0, FALSE)

WaitsEnd(kind, index) == [kind |-> kind, index |-> index]

\* A variant that rebuilds the instruction from its variant and name alone.
PatchedFresh(l, w, offset) ==
    [l EXCEPT ![w.index + 1] =
        [Inst(w.kind.t, w.kind.name, NoCond, 0, FALSE) EXCEPT !.offset = offset]]

\* insts[index] = <the same variant, its fields cloned from kind, the offset set>
Patched(l, w, offset) == [l EXCEPT ![w.index + 1] = [w.kind EXCEPT !.offset = offset]]

\* let offset_to_next = insts.len() - prev.index;   (ElIf, Else)
OffsetToNext(len, index) == len - index

\* An offset that falls one short of the End.
OffsetToEndShort(len, index) == len - index - 1

\* let offset_to_end = insts.len() - start.index;   (End)
OffsetToEnd(len, index) == len - index

Top(st) == st[Len(st)]

Pop(st) == SubSeq(st, 1, Len(st) - 1)

\* A statement is still to be read from the input.
Compiling == cphase = "compile" /\ Len(insts) - 1 < MaxInsts

\* let mut insts = vec![Inst::Ill]; the stack and the name table empty.
InitComp ==
    /\ MainIdle
    /\ LexIdle
    /\ EvalIdle
    /\ insts = <<InstIll>>
    /\ waits_end_stack = <<>>
    /\ subs = <<>>
    /\ cphase = "compile"
    /\ stmt = NoStmt
    /\ stmts = <<>>
    /\ pc = 0
    /\ slot = {}
    /\ env = <<>>
    /\ execs = ZeroExecs
    /\ entered = {}
    /\ tested = {}

\* for stmt in stmts: the statement the loop body is given.
Stmt(rule, name) == [rule |-> rule, name |-> name]

\* A statement of the stream with what it carries: its rule, the name, the
\* guard, the literal and the mutability marker.
Statement(rule, name, cond, val, is_mut) ==
    [rule |-> rule, name |-> name, cond |-> cond, val |-> val, is_mut |-> is_mut]

Die ==
    /\ cphase' = "exit"
    /\ UNCHANGED <<insts, waits_end_stack, subs>>

\* Push a block opener: onto the stack with its index, and onto insts.
PushOpener(inst_obj) ==
    /\ waits_end_stack' = Append(waits_end_stack, WaitsEnd(inst_obj, Len(insts)))
    /\ insts' = Append(insts, inst_obj)

\* The Sub is refused when the entry on top of the stack is a Sub.
SubIsNested ==
    /\ waits_end_stack # <<>>
    /\ Top(waits_end_stack).kind.t = "Sub"

\* A variant in which a name defined again takes the place of the old one.
CompileSubOverwrite(n) ==
    /\ Compiling
    /\ stmt' = Stmt("Sub", n)
    /\ stmts' = Append(stmts, Statement("Sub", n, NoCond, 0, FALSE))
    /\ IF SubIsNested
       THEN Die
       ELSE /\ subs' = FnsInsert(subs, n, Len(insts))
            /\ PushOpener(Inst("Sub", n, NoCond, 0, FALSE))
            /\ UNCHANGED cphase
    /\ UNCHANGED <<runVars, runObs, notComp>>

CompileSub(n) ==
    /\ Compiling
    /\ stmt' = Stmt("Sub", n)
    /\ stmts' = Append(stmts, Statement("Sub", n, NoCond, 0, FALSE))
    /\ IF SubIsNested
       THEN Die
       ELSE IF n \in DOMAIN subs
       THEN Die
       ELSE /\ subs' = FnsInsert(subs, n, Len(insts))
            /\ PushOpener(Inst("Sub", n, NoCond, 0, FALSE))
            /\ UNCHANGED cphase
    /\ UNCHANGED <<runVars, runObs, notComp>>

CompileWhile(c) ==
    /\ Compiling
    /\ stmt' = Stmt("While", "")
    /\ stmts' = Append(stmts, Statement("While", "", c, 0, FALSE))
    /\ PushOpener(Inst("While", "", c, 0, FALSE))
    /\ UNCHANGED <<subs, cphase, runVars, runObs, notComp>>

CompileLet(n, v, m) ==
    /\ Compiling
    /\ stmt' = Stmt("Let", n)
    /\ stmts' = Append(stmts, Statement("Let", n, NoCond, v, m))
    /\ IF StartsWithUnderscore(n)
       THEN Die
       ELSE /\ insts' = Append(insts, Inst("Let", n, NoCond, v, m))
            /\ UNCHANGED <<waits_end_stack, subs, cphase>>
    /\ UNCHANGED <<runVars, runObs, notComp>>

\* A variant without the check of the name.
CompileModifyAnyName(n, v) ==
    /\ Compiling
    /\ stmt' = Stmt("Modify", n)
    /\ stmts' = Append(stmts, Statement("Modify", n, NoCond, v, FALSE))
    /\ insts' = Append(insts, Inst("Modify", n, NoCond, v, FALSE))
    /\ UNCHANGED <<waits_end_stack, subs, cphase>>
    /\ UNCHANGED <<runVars, runObs, notComp>>

CompileModify(n, v) ==
    /\ Compiling
    /\ stmt' = Stmt("Modify", n)
    /\ stmts' = Append(stmts, Statement("Modify", n, NoCond, v, FALSE))
    /\ IF StartsWithUnderscore(n)
       THEN Die
       ELSE /\ insts' = Append(insts, Inst("Modify", n, NoCond, v, FALSE))
            /\ UNCHANGED <<waits_end_stack, subs, cphase>>
    /\ UNCHANGED <<runVars, runObs, notComp>>

CompileIf(c) ==
    /\ Compiling
    /\ stmt' = Stmt("If", "")
    /\ stmts' = Append(stmts, Statement("If", "", c, 0, FALSE))
    /\ PushOpener(Inst("If", "", c, 0, FALSE))
    /\ UNCHANGED <<subs, cphase, runVars, runObs, notComp>>

\* A variant that lets an ElIf or Else follow any pending block.
CloseBranchAndOpenAnyTop(inst_obj) ==
    IF waits_end_stack = <<>>
    THEN Die
    ELSE LET prev == Top(waits_end_stack)
             offset_to_next == OffsetToNext(Len(insts), prev.index)
         IN  /\ insts' = Append(Patched(insts, prev, offset_to_next), inst_obj)
             /\ waits_end_stack' =
                    Append(Pop(waits_end_stack), WaitsEnd(inst_obj, Len(insts)))
             /\ UNCHANGED <<subs, cphase>>

\* ElIf and Else: pop, patch the If/ElIf popped, push the new opener.
CloseBranchAndOpen(inst_obj) ==
    IF waits_end_stack = <<>>
    THEN Die
    ELSE LET prev == Top(waits_end_stack)
             offset_to_next == OffsetToNext(Len(insts), prev.index)
         IN  IF prev.kind.t \in {"If", "ElIf"}
             THEN /\ insts' = Append(Patched(insts, prev, offset_to_next), inst_obj)
                  /\ waits_end_stack' =
                         Append(Pop(waits_end_stack), WaitsEnd(inst_obj, Len(insts)))
                  /\ UNCHANGED <<subs, cphase>>
             ELSE Die

CompileElIf(c) ==
    /\ Compiling
    /\ stmt' = Stmt("ElIf", "")
    /\ stmts' = Append(stmts, Statement("ElIf", "", c, 0, FALSE))
    /\ CloseBranchAndOpen(Inst("ElIf", "", c, 0, FALSE))
    /\ UNCHANGED <<runVars, runObs, notComp>>

CompileElse ==
    /\ Compiling
    /\ stmt' = Stmt("Else", "")
    /\ stmts' = Append(stmts, Statement("Else", "", NoCond, 0, FALSE))
    /\ CloseBranchAndOpen(Inst("Else", "", NoCond, 0, FALSE))
    /\ UNCHANGED <<runVars, runObs, notComp>>

CompileEnd ==
    /\ Compiling
    /\ stmt' = Stmt("End", "")
    /\ stmts' = Append(stmts, Statement("End", "", NoCond, 0, FALSE))
    /\ IF waits_end_stack = <<>>
       THEN Die
       ELSE LET start == Top(waits_end_stack)
                offset_to_end == OffsetToEnd(Len(insts), start.index)
            IN  IF start.kind.t \in {"Sub", "While", "If", "ElIf", "Else"}
                THEN /\ insts' = Append(Patched(insts, start, offset_to_end), InstEnd)
                     /\ waits_end_stack' = Pop(waits_end_stack)
                     /\ UNCHANGED <<subs, cphase>>
                ELSE Die
    /\ UNCHANGED <<runVars, runObs, notComp>>

\* A variant in which a Break emits nothing.
CompileBreakDropped ==
    /\ Compiling
    /\ stmt' = Stmt("Break", "")
    /\ stmts' = Append(stmts, Statement("Break", "", NoCond, 0, FALSE))
    /\ UNCHANGED <<insts, waits_end_stack, subs, cphase, runVars, runObs, notComp>>

\* Rule::Break => insts.push(Inst::Break)
CompileBreak ==
    /\ Compiling
    /\ stmt' = Stmt("Break", "")
    /\ stmts' = Append(stmts, Statement("Break", "", NoCond, 0, FALSE))
    /\ insts' = Append(insts, Inst("Break", "", NoCond, 0, FALSE))
    /\ UNCHANGED <<waits_end_stack, subs, cphase, runVars, runObs, notComp>>

\* Rule::Comment => {}
CompileComment ==
    /\ Compiling
    /\ stmt' = [rule |-> "Comment", name |-> ""]
    /\ UNCHANGED <<insts, waits_end_stack, subs, cphase, stmts, runVars, runObs, notComp>>

\* Rule::EOI => break; Some(Program { insts, subs }) is returned and run: the
\* program counter starts past the sentinel, the slot and the bindings empty.
CompileEOI ==
    /\ cphase = "compile"
    /\ cphase' = "run"
    /\ pc' = 1
    /\ slot' = {}
    /\ env' = <<>>
    /\ stmt' = Stmt("EOI", "")
    /\ UNCHANGED stmts
    /\ UNCHANGED <<insts, waits_end_stack, subs, runObs, notComp>>

\* ------------------------------------- structure of a compiled Program
PIdx == 1..(Len(insts) - 1)

Kind(k) == At(insts, k).t

\* Blocks opened minus blocks closed over the indices a..b.
Bal(a, b) ==
    Cardinality({k \in a..b : Kind(k) \in {"Sub", "While", "If"}})
        - Cardinality({k \in a..b : Kind(k) = "End"})

ClosesAt(p, q) ==
    /\ q > p
    /\ Kind(q) \in {"ElIf", "Else", "End"}
    /\ Bal(p + 1, q - 1) = 0

\* The ElIf, Else or End that structurally closes the opener at p.
HasCloser(p) == \E q \in PIdx : ClosesAt(p, q)

Closer(p) ==
    CHOOSE q \in PIdx : ClosesAt(p, q) /\ \A r \in PIdx : ClosesAt(p, r) => q <= r

\* The branch an ElIf or Else at q follows, and the If heading its chain.
Precedes(p, q) ==
    /\ p < q
    /\ Kind(p) \in {"If", "ElIf"}
    /\ Bal(p + 1, q - 1) = 0

PrevBranch(q) ==
    CHOOSE p \in PIdx : Precedes(p, q) /\ \A r \in PIdx : Precedes(r, q) => r <= p

RECURSIVE ChainHead(_)
ChainHead(q) == IF Kind(q) = "If" THEN q ELSE ChainHead(PrevBranch(q))

Chain(h) == {q \in PIdx : Kind(q) \in {"If", "ElIf", "Else"} /\ ChainHead(q) = h}

\* --------------------------- the interpreter (spec section 4.5), run(program)
RunningC == cphase = "run" /\ pc < Len(insts)

CurI == At(insts, pc)

Count(h, k) == IF k \in DOMAIN h THEN [h EXCEPT ![k] = Min2(@ + 1, 2)] ELSE h

\* The openers of a kind an End belongs to: those whose stored offset
\* reaches it (at most one in a compiled program).
Opener(e, kind) ==
    {p \in PIdx : /\ Kind(p) = kind
                  /\ At(insts, p).offset > 0
                  /\ p + At(insts, p).offset = e}

\* if false, i += offset + 1
SkipTarget(at, offset) == at + offset + 1

Bind(vs, n, v, m) ==
    [k \in (DOMAIN vs) \cup {n} |-> IF k = n THEN [value |-> v, mutable |-> m] ELSE vs[k]]

RunLet ==
    /\ RunningC
    /\ CurI.t = "Let"
    /\ env' = Bind(env, CurI.name, CurI.val, CurI.is_mut)
    /\ pc' = pc + 1
    /\ execs' = Count(execs, pc)
    /\ UNCHANGED <<slot, entered, tested, compVars, notComp>>

RunModify ==
    /\ RunningC
    /\ CurI.t = "Modify"
    /\ IF CurI.name \in DOMAIN env /\ env[CurI.name].mutable
       THEN /\ env' = Bind(env, CurI.name, CurI.val, TRUE)
            /\ pc' = pc + 1
            /\ UNCHANGED cphase
       ELSE /\ cphase' = "error"
            /\ UNCHANGED <<env, pc>>
    /\ execs' = Count(execs, pc)
    /\ UNCHANGED <<slot, entered, tested, insts, waits_end_stack, subs, stmt, stmts, notComp>>

RunSub ==
    /\ RunningC
    /\ CurI.t = "Sub"
    /\ pc' = SkipTarget(pc, CurI.offset)
    /\ execs' = Count(execs, pc)
    /\ UNCHANGED <<slot, env, entered, tested, compVars, notComp>>

RunWhile ==
    /\ RunningC
    /\ CurI.t = "While"
    /\ LET g == EvalCompExpr(CurI.cond, env)
       IN  IF ~g.ok
           THEN cphase' = "error" /\ UNCHANGED pc
           ELSE /\ pc' = IF g.b THEN pc + 1 ELSE SkipTarget(pc, CurI.offset)
                /\ UNCHANGED cphase
    /\ execs' = Count(execs, pc)
    /\ UNCHANGED <<slot, env, entered, tested, insts, waits_end_stack, subs, stmt, stmts, notComp>>

\* If and ElIf share one rule.
RunIf ==
    /\ RunningC
    /\ CurI.t \in {"If", "ElIf"}
    /\ LET g == EvalCompExpr(CurI.cond, env)
           old == IF CurI.t = "If" THEN Chain(pc) ELSE {}
       IN  IF ~g.ok
           THEN cphase' = "error" /\ UNCHANGED <<pc, entered, tested>>
           ELSE /\ pc' = IF g.b THEN pc + 1 ELSE SkipTarget(pc, CurI.offset)
                /\ tested' = (tested \ old) \cup {pc}
                /\ entered' = (entered \ old) \cup (IF g.b THEN {pc} ELSE {})
                /\ UNCHANGED cphase
    /\ execs' = Count(execs, pc)
    /\ UNCHANGED <<slot, env, insts, waits_end_stack, subs, stmt, stmts, notComp>>

RunElse ==
    /\ RunningC
    /\ CurI.t = "Else"
    /\ pc' = pc + 1
    /\ entered' = entered \cup {pc}
    /\ execs' = Count(execs, pc)
    /\ UNCHANGED <<slot, env, tested, compVars, notComp>>

\* End of a While: back to the While. End of a Sub: to the return address,
\* an empty slot being an internal error. End of an if chain: on.
RunEnd ==
    /\ RunningC
    /\ CurI.t = "End"
    /\ CASE Opener(pc, "While") # {} ->
                pc' \in Opener(pc, "While") /\ UNCHANGED <<slot, cphase>>
         [] Opener(pc, "While") = {} /\ Opener(pc, "Sub") # {} ->
                IF slot # {}
                THEN pc' = TheOne(slot) /\ slot' = {} /\ UNCHANGED cphase
                ELSE cphase' = "error" /\ UNCHANGED <<pc, slot>>
         [] OTHER ->
                pc' = pc + 1 /\ UNCHANGED <<slot, cphase>>
    /\ execs' = Count(execs, pc)
    /\ UNCHANGED <<env, entered, tested, insts, waits_end_stack, subs, stmt, stmts, notComp>>

\* The loops a Break at `at` is in: the Whiles before it whose End, given by
\* their offset, comes after it.
EnclosingWhiles(at) ==
    {p \in PIdx : /\ Kind(p) = "While"
                  /\ p < at
                  /\ at < p + At(insts, p).offset}

OutermostWhile(at) ==
    CHOOSE w \in EnclosingWhiles(at) : \A q \in EnclosingWhiles(at) : w <= q

InnermostWhile(at) ==
    CHOOSE w \in EnclosingWhiles(at) : \A q \in EnclosingWhiles(at) : q <= w

\* Break: out of the innermost enclosing While, to just past its End, where
\* the While itself goes when its guard is false; fatal when in no While.
RunBreak ==
    /\ RunningC
    /\ CurI.t = "Break"
    /\ IF EnclosingWhiles(pc) = {}
       THEN cphase' = "error" /\ UNCHANGED pc
       ELSE /\ pc' = SkipTarget(InnermostWhile(pc), At(insts, InnermostWhile(pc)).offset)
            /\ UNCHANGED cphase
    /\ execs' = Count(execs, pc)
    /\ UNCHANGED <<slot, env, entered, tested, insts, waits_end_stack, subs, stmt, stmts, notComp>>

\* i runs past the end of the instruction sequence: the implicit Halt.
RunPastEnd ==
    /\ cphase = "run"
    /\ pc >= Len(insts)
    /\ cphase' = "done"
    /\ UNCHANGED <<insts, waits_end_stack, subs, stmt, stmts, runVars, runObs, notComp>>

NextBlocks ==
    \/ \E n \in Names : CompileSub(n)
    \/ \E c \in LoopConds : CompileWhile(c)
    \/ \E n \in TargetNames, v \in Values : CompileLet(n, v, TRUE)
    \/ \E n \in TargetNames : CompileModify(n, 1)
    \/ \E c \in Conds : CompileIf(c)
    \/ \E c \in Conds : CompileElIf(c)
    \/ CompileElse
    \/ CompileEnd
    \/ CompileBreak
    \/ CompileEOI
    \/ RunLet
    \/ RunModify
    \/ RunSub
    \/ RunWhile
    \/ RunIf
    \/ RunElse
    \/ RunEnd
    \/ RunBreak
    \/ RunPastEnd

SpecBlocks == InitComp /\ [][NextBlocks]_vars

\* parse alone: the statements are compiled, the Program is returned at EOI
\* and is not run.
NextCompile ==
    \/ \E n \in Names : CompileSub(n)
    \/ \E c \in LoopConds : CompileWhile(c)
    \/ \E n \in TargetNames, lit \in Values : CompileLet(n, lit, TRUE)
    \/ \E n \in TargetNames : CompileModify(n, 1)
    \/ \E c \in Conds : CompileIf(c)
    \/ \E c \in Conds : CompileElIf(c)
    \/ CompileElse
    \/ CompileEnd
    \/ CompileBreak
    \/ CompileComment
    \/ CompileEOI

SpecCompile == InitComp /\ [][NextCompile]_vars

----------------------------------------------------------------------------
\* lex.rs: the lexer.  A line is a sequence of characters (one-character
\* strings); the input is the sequence of lines that s.lines() yields.

Whitespace == {" ", "\t"}

IsWhitespace(c) == c \in Whitespace

Digits == {"0", "1", "2", "3", "4", "5", "6", "7", "8", "9"}

\* char::is_numeric holds of the ASCII digits and of other numeric characters
\* as well, of which the superscript two stands here.
NumericChars == Digits \cup {"²"}

IsNumeric(c) == c \in NumericChars

\* char::to_lowercase on the letters used here.
ToLowercase ==
    ("A" :> "a") @@ ("B" :> "b") @@ ("C" :> "c") @@ ("D" :> "d") @@
    ("E" :> "e") @@ ("F" :> "f") @@ ("G" :> "g") @@ ("H" :> "h") @@
    ("I" :> "i") @@ ("J" :> "j") @@ ("K" :> "k") @@ ("L" :> "l") @@
    ("M" :> "m") @@ ("N" :> "n") @@ ("O" :> "o") @@ ("P" :> "p") @@
    ("Q" :> "q") @@ ("R" :> "r") @@ ("S" :> "s") @@ ("T" :> "t") @@
    ("U" :> "u") @@ ("V" :> "v") @@ ("W" :> "w") @@ ("X" :> "x") @@
    ("Y" :> "y") @@ ("Z" :> "z")

Lower(c) == IF c \in DOMAIN ToLowercase THEN ToLowercase[c] ELSE c

\* is_item: item_chars is a case-insensitive prefix of src_chars.
IsItem(item_chars, src_chars) ==
    /\ Len(item_chars) <= Len(src_chars)
    /\ \A k \in 1..Len(item_chars) : Lower(item_chars[k]) = Lower(src_chars[k])

\* RESERVED_CHARS without '!' and '=', which would then be identifier
\* characters.
ReservedCharsWithoutBangEq == {"+", "-", "*", "/", "%", "\"", "<", ">", ";", ","}

RESERVED_CHARS == {"+", "-", "*", "/", "%", "\"", "<", ">", "!", "=", ";", ","}

is_ident_char(c) == ~IsWhitespace(c) /\ c \notin RESERVED_CHARS

is_sep(c) == IsWhitespace(c) \/ c = ";"

KeywordsTable ==
    << [name |-> "AsMut", str |-> <<"a", "s", "m", "u", "t">>],
       [name |-> "Be",    str |-> <<"b", "e">>],
       [name |-> "To",    str |-> <<"t", "o">>],
       [name |-> "Dice",  str |-> <<"d", "i", "c", "e">>],
       [name |-> "With",  str |-> <<"w", "i", "t", "h">>],
       [name |-> "Face",  str |-> <<"f", "a", "c", "e">>],
       [name |-> "True",  str |-> <<"t", "r", "u", "e">>],
       [name |-> "False", str |-> <<"f", "a", "l", "s", "e">>] >>

InstsTable ==
    << [name |-> "Print",  str |-> <<"p", "r", "i", "n", "t">>],
       [name |-> "Sub",    str |-> <<"s", "u", "b">>],
       [name |-> "Call",   str |-> <<"c", "a", "l", "l">>],
       [name |-> "While",  str |-> <<"w", "h", "i", "l", "e">>],
       [name |-> "Let",    str |-> <<"l", "e", "t">>],
       [name |-> "Modify", str |-> <<"m", "o", "d", "i", "f", "y">>],
       [name |-> "Input",  str |-> <<"i", "n", "p", "u", "t">>],
       [name |-> "If",     str |-> <<"i", "f">>],
       [name |-> "ElIf",   str |-> <<"e", "l", "i", "f">>],
       [name |-> "Else",   str |-> <<"e", "l", "s", "e">>],
       [name |-> "End",    str |-> <<"e", "n", "d">>],
       [name |-> "Roll",   str |-> <<"r", "o", "l", "l">>],
       [name |-> "Halt",   str |-> <<"h", "a", "l", "t">>],
       [name |-> "Break",  str |-> <<"b", "r", "e", "a", "k">>],
       [name |-> "EnableWait",
        str |-> <<"e", "n", "a", "b", "l", "e", "w", "a", "i", "t">>],
       [name |-> "DisableWait",
        str |-> <<"d", "i", "s", "a", "b", "l", "e", "w", "a", "i", "t">>] >>

AriOpsTable ==
    << [name |-> "Add", str |-> <<"+">>],
       [name |-> "Sub", str |-> <<"-">>],
       [name |-> "Mul", str |-> <<"*">>],
       [name |-> "Div", str |-> <<"/">>],
       [name |-> "Mod", str |-> <<"%">>] >>

RelOpsTable ==
    << [name |-> "Equal",        str |-> <<"=", "=">>],
       [name |-> "NotEqual",     str |-> <<"!", "=">>],
       [name |-> "LessEqual",    str |-> <<"<", "=">>],
       [name |-> "GreaterEqual", str |-> <<">", "=">>],
       [name |-> "LessThan",     str |-> <<"<">>],
       [name |-> "GreaterThan",  str |-> <<">">>] >>

\* let confirm_item = |len| len == vs.len() || is_sep(vs[len])
confirm_item(len, vs) == len = Len(vs) \/ is_sep(vs[len + 1])

\* .iter().find(..): the first entry of the table that matches, as an Option.
FirstOf(table, matching) ==
    IF matching = {} THEN {}
    ELSE {table[CHOOSE k \in matching : \A m \in matching : k <= m]}

\* ToItem::check: the first item that is a prefix of s.
Check(table, s) ==
    FirstOf(table, {k \in 1..Len(table) : IsItem(table[k].str, s)})

\* A lookup of reserved words that accepts any prefix match.
CheckReservedAnyEnd(table, s) == Check(table, s)

\* Keywords::check and Insts::check: the prefix must also end the word.
CheckReserved(table, s) ==
    FirstOf(table, {k \in 1..Len(table) :
                        /\ IsItem(table[k].str, s)
                        /\ confirm_item(Len(table[k].str), s)})

\* s.parse() of a run of ASCII digits.
DigitValue(c) == CHOOSE d \in 0..9 : <<"0", "1", "2", "3", "4", "5", "6", "7", "8", "9">>[d + 1] = c

RECURSIVE ParseNum(_)
ParseNum(s) ==
    IF s = <<>> THEN 0
    ELSE 10 * ParseNum(SubSeq(s, 1, Len(s) - 1)) + DigitValue(s[Len(s)])

\* s.parse() is Ok: every character is an ASCII digit and the value is in the
\* range of the integer type.
Parses(s) ==
    /\ \A k \in DOMAIN s : s[k] \in Digits
    /\ ParseNum(s) <= UsizeMax

\* A variant that keeps the 0-based index as the column.
LocZeroBased(line, at) == [row |-> line + 1, col |-> at]

\* Location { row: idx + 1, col: i + 1 }
Loc(line, at) == [row |-> line + 1, col |-> at + 1]

Item(kind, name, s, n) == [kind |-> kind, name |-> name, s |-> s, n |-> n]

Token(loc, item) == [loc |-> loc, item |-> item]

Error(kind, c, loc) == [kind |-> kind, ch |-> c, row |-> loc.row, col |-> loc.col]

\* The characters and the earlier lines the inputs are made of.
Chars == {" ", "#", ";", "\"", "b", "e", "<", "=", "!", "1"}

PriorLines == {<<>>, <<";">>}

SeqsUpTo(S, n) == UNION {[1..m -> S] : m \in 0..n}

\* Whole words given as a last line besides the lines over Chars.
SampleLines ==
    { <<"B", "e", "d">>,
      <<"B", "E">>,
      <<"d", "i", "c", "e">>,
      <<"d", "i", "c", "e", "s">>,
      <<"D", "i", "c", "e", "s", ";">>,
      <<"d", "i", "c", "e", "s", "x">>,
      <<"f", "a", "c", "e", "s">>,
      <<"t", "o", "m", "a", "t", "o">>,
      <<"p", "r", "i", "n", "t", "x">>,
      <<"p", "r", "i", "n", "t", " ", "x">>,
      <<"e", "n", "d", ";">>,
      <<"7">>,
      <<"8">>,
      <<"²">>,
      <<"1", "²", ";">>,
      <<"\"", "#", "\"", "<", "=", "1", "#", ";">>,
      <<"<", "<", "=", ">", "=", "=", "=", "#", "<", "=">> }

\* The inputs: up to MaxRows lines, the last one any line over Chars or one
\* of the sample lines.
Inputs ==
    {<<>>} \cup
    {prior \o <<last>> : prior \in SeqsUpTo(PriorLines, MaxRows - 1),
                         last \in SeqsUpTo(Chars, MaxLineLen) \cup SampleLines}

InitLex ==
    /\ MainIdle
    /\ CompIdle
    /\ EvalIdle
    /\ lines \in Inputs
    /\ idx = 0
    /\ li = 0
    /\ tks = <<>>
    /\ lphase = "scan"
    /\ lerr = NoError

\* let v: Vec<_> = l.chars().collect()
v == lines[idx + 1]

\* Inside the for loop, at the test of the while loop.
InLine == lphase = "scan" /\ idx < Len(lines)

\* Inside the while loop, about to look at v[i].
Scanning == InLine /\ li < Len(v)

\* vs = &v[i..]
vs == SubSeq(v, li + 1, Len(v))

\* The index at which a loop `while i < v.len() && p(v[i]) { i += 1 }`
\* started at index from stops; holds[k + 1] tells whether p(v[k]).
ScanWhile(holds, from) ==
    CHOOSE j \in from..Len(holds) :
        /\ \A k \in from..(j - 1) : At(holds, k)
        /\ j = Len(holds) \/ ~At(holds, j)

NotQuote(c) == c # "\""

Push(item) == tks' = Append(tks, Token(Loc(idx, li), item))

\* if v[i].is_whitespace() { i += 1 }
LexWhitespace ==
    /\ Scanning
    /\ IsWhitespace(At(v, li))
    /\ li' = li + 1
    /\ UNCHANGED <<lines, idx, tks, lphase, lerr, notLex>>

\* The while loop is over: the for loop takes the next line.
LexEndOfLine ==
    /\ InLine
    /\ li >= Len(v)
    /\ idx' = idx + 1
    /\ li' = 0
    /\ UNCHANGED <<lines, tks, lphase, lerr, notLex>>

\* A variant that skips the '#' alone and goes on with the line.
LexCommentOneChar ==
    /\ Scanning
    /\ At(v, li) = "#"
    /\ li' = li + 1
    /\ UNCHANGED <<lines, idx, tks, lphase, lerr, notLex>>

\* '#' => break
LexComment ==
    /\ Scanning
    /\ At(v, li) = "#"
    /\ idx' = idx + 1
    /\ li' = 0
    /\ UNCHANGED <<lines, tks, lphase, lerr, notLex>>

SingleCharItems == (";" :> "Semi") @@ ("," :> "Comma") @@ ("(" :> "LParen") @@ (")" :> "RParen")

\* ';' ',' '(' ')'
LexSingleChar ==
    /\ Scanning
    /\ At(v, li) \in DOMAIN SingleCharItems
    /\ li' = li + 1
    /\ Push(Item(SingleCharItems[At(v, li)], "", <<>>, 0))
    /\ UNCHANGED <<lines, idx, lphase, lerr, notLex>>

\* '"': the string literal.  After the loop i is either at a '"' or at
\* v.len(); `v[i] != '"'` then indexes v, which panics at v.len().
LexString ==
    /\ Scanning
    /\ At(v, li) = "\""
    /\ LET stop == ScanWhile([k \in DOMAIN v |-> NotQuote(v[k])], li + 1)
       IN  IF stop >= Len(v)
           THEN /\ lphase' = "panic"
                /\ UNCHANGED <<li, tks, lerr>>
           ELSE IF At(v, stop) # "\""
           THEN /\ lphase' = "err"
                /\ lerr' = Error("UnterminatedStr", "", Loc(idx, li))
                /\ UNCHANGED <<li, tks>>
           ELSE /\ li' = stop + 1
                /\ Push(Item("Str", "", SubSeq(v, li + 2, stop), 0))
                /\ UNCHANGED <<lphase, lerr>>
    /\ UNCHANGED <<lines, idx, notLex>>

\* The `_` arm applies to what the arms above do not take.
OtherChar ==
    /\ Scanning
    /\ ~IsWhitespace(At(v, li))
    /\ At(v, li) \notin {"#", "\""} \cup DOMAIN SingleCharItems

IsDices == IsItem(<<"d", "i", "c", "e", "s">>, vs) /\ confirm_item(5, vs)

IsFaces == IsItem(<<"f", "a", "c", "e", "s">>, vs) /\ confirm_item(5, vs)

\* The reserved word at vs, as [kind, name, len], or none.
ReservedAt ==
    IF IsDices THEN {[kind |-> "Key", name |-> "Dice", len |-> 5]}
    ELSE IF IsFaces THEN {[kind |-> "Key", name |-> "Face", len |-> 5]}
    ELSE IF CheckReserved(KeywordsTable, vs) # {}
    THEN {[kind |-> "Key", name |-> r.name, len |-> Len(r.str)] :
              r \in CheckReserved(KeywordsTable, vs)}
    ELSE {[kind |-> "Inst", name |-> r.name, len |-> Len(r.str)] :
              r \in CheckReserved(InstsTable, vs)}

\* The operator at vs, as [name, len], or none.
OperatorAt ==
    IF Check(AriOpsTable, vs) # {}
    THEN {[name |-> r.name, len |-> Len(r.str)] : r \in Check(AriOpsTable, vs)}
    ELSE {[name |-> r.name, len |-> Len(r.str)] : r \in Check(RelOpsTable, vs)}

\* "dices", "faces", Keywords::check, Insts::check
LexReserved ==
    /\ OtherChar
    /\ ReservedAt # {}
    /\ LET r == TheOne(ReservedAt)
       IN  /\ li' = li + r.len
           /\ Push(Item(r.kind, r.name, <<>>, 0))
    /\ UNCHANGED <<lines, idx, lphase, lerr, notLex>>

\* AriOps::check, RelOps::check
LexOperator ==
    /\ OtherChar
    /\ ReservedAt = {}
    /\ OperatorAt # {}
    /\ LET r == TheOne(OperatorAt)
       IN  /\ li' = li + r.len
           /\ Push(Item("Ops", r.name, <<>>, 0))
    /\ UNCHANGED <<lines, idx, lphase, lerr, notLex>>

\* v[i].is_numeric(): the run of digits
LexNumber ==
    /\ OtherChar
    /\ ReservedAt = {}
    /\ OperatorAt = {}
    /\ IsNumeric(At(v, li))
    /\ LET stop == ScanWhile([k \in DOMAIN v |-> IsNumeric(v[k])], li)
           s == SubSeq(v, li + 1, stop)
       IN  IF Parses(s)
           THEN /\ li' = stop
                /\ Push(Item("Num", "", <<>>, ParseNum(s)))
                /\ UNCHANGED lphase
           ELSE /\ lphase' = "panic"
                /\ UNCHANGED <<li, tks>>
    /\ UNCHANGED <<lines, idx, lerr, notLex>>

\* is_ident_char(v[i]): the run of identifier characters
LexIdent ==
    /\ OtherChar
    /\ ReservedAt = {}
    /\ OperatorAt = {}
    /\ ~IsNumeric(At(v, li))
    /\ is_ident_char(At(v, li))
    /\ LET stop == ScanWhile([k \in DOMAIN v |-> is_ident_char(v[k])], li)
       IN  /\ li' = stop
           /\ Push(Item("Ident", "", SubSeq(v, li + 1, stop), 0))
    /\ UNCHANGED <<lines, idx, lphase, lerr, notLex>>

\* else: return Err(.. UnexpectedChar(v[i]) ..)
LexUnexpected ==
    /\ OtherChar
    /\ ReservedAt = {}
    /\ OperatorAt = {}
    /\ ~IsNumeric(At(v, li))
    /\ ~is_ident_char(At(v, li))
    /\ lphase' = "err"
    /\ lerr' = Error("UnexpectedChar", At(v, li), Loc(idx, li))
    /\ UNCHANGED <<lines, idx, li, tks, notLex>>

\* Ok(Lexed { lines, tokens: tks })
LexOk ==
    /\ lphase = "scan"
    /\ idx >= Len(lines)
    /\ lphase' = "ok"
    /\ UNCHANGED <<lines, idx, li, tks, lerr, notLex>>

NextLex ==
    \/ LexWhitespace
    \/ LexEndOfLine
    \/ LexComment
    \/ LexSingleChar
    \/ LexString
    \/ LexReserved
    \/ LexOperator
    \/ LexNumber
    \/ LexIdent
    \/ LexUnexpected
    \/ LexOk

SpecLex == InitLex /\ [][NextLex]_vars

\* The scan loop always takes its next step.
FairLex == SpecLex /\ WF_vars(NextLex)

----------------------------------------------------------------------------
\* exprs.rs: one expression, from the statement to its value.  The source of
\* an expression is its operands and the operators written between them.

\* The operands and the operator spellings the inputs are made of.
Operands == {Num(1), Num(2), Num(3), Num(UsizeMax), Ident("x"), Ident("y")}

OpSpellings == {"+", "*"}

Stacks ==
    {<<>>} \cup {[n \in {"x"} |-> [value |-> val, mutable |-> FALSE]] : val \in {1, UsizeMax}}

ExprSources ==
    UNION {[terms : [1..n -> Operands], ops : [1..(n - 1) -> OpSpellings]] : n \in 1..MaxTerms}

InitEval ==
    /\ MainIdle
    /\ CompIdle
    /\ LexIdle
    /\ expr_src \in ExprSources
    /\ call_stack \in Stacks
    /\ expr = NoExpr
    /\ eval_res = NoResult
    /\ ephase = "parse"

\* ExprOp::parse_stmt: "+" is Add, anything else is unreachable!().
IsAdd(op_str) == op_str = "+"

TrueExpr(lhs, op, rhs) == [kind |-> "TrueExpr", lhs |-> lhs, op |-> op, rhs |-> rhs]

\* Expr::parse_stmt / TrueExpr::parse_stmt: lhs is one operand, rhs the Expr
\* of everything after the first operator.
RECURSIVE ParseExpr(_, _)
ParseExpr(terms, ops) ==
    IF Len(terms) = 1 THEN terms[1]
    ELSE TrueExpr(terms[1], "Add", ParseExpr(Tail(terms), Tail(ops)))

ExprParseStmt ==
    /\ ephase = "parse"
    /\ IF \A k \in DOMAIN expr_src.ops : IsAdd(expr_src.ops[k])
       THEN /\ expr' = ParseExpr(expr_src.terms, expr_src.ops)
            /\ ephase' = "eval"
       ELSE /\ ephase' = "panic"
            /\ UNCHANGED expr
    /\ UNCHANGED <<expr_src, call_stack, eval_res, notEval>>

OverFlow == [ok |-> FALSE, v |-> 0, err |-> "OverFlow"]

\* The sum the machine word would keep.
WrappingAdd(lhs, rhs) == Ok((lhs + rhs) % (UsizeMax + 1))

\* lhs.checked_add(rhs).ok_or(ExprRuntimeError::OverFlow)
CheckedAdd(lhs, rhs) == IF lhs + rhs > UsizeMax THEN OverFlow ELSE Ok(lhs + rhs)

\* A variant that evaluates the right operand before the left one.
RECURSIVE EvalExprRhsFirst(_, _)
EvalExprRhsFirst(e, stack) ==
    IF e.kind # "TrueExpr" THEN EvalIdentOrNum(e, stack)
    ELSE LET l == EvalIdentOrNum(e.lhs, stack)
             r == EvalExprRhsFirst(e.rhs, stack)
         IN  IF ~r.ok THEN r
             ELSE IF ~l.ok THEN l
             ELSE CheckedAdd(l.v, r.v)

\* Expr::eval, TrueExpr::eval: lhs, then rhs, each error returned at once.
RECURSIVE EvalExpr(_, _)
EvalExpr(e, stack) ==
    IF e.kind # "TrueExpr" THEN EvalIdentOrNum(e, stack)
    ELSE LET l == EvalIdentOrNum(e.lhs, stack)
             r == EvalExpr(e.rhs, stack)
         IN  IF ~l.ok THEN l
             ELSE IF ~r.ok THEN r
             ELSE CheckedAdd(l.v, r.v)

ExprEval ==
    /\ ephase = "eval"
    /\ eval_res' = EvalExpr(expr, call_stack)
    /\ ephase' = "done"
    /\ UNCHANGED <<expr_src, call_stack, expr, notEval>>

NextEval ==
    \/ ExprParseStmt
    \/ ExprEval

SpecEval == InitEval /\ [][NextEval]_vars

----------------------------------------------------------------------------

\* ------------------------------------------- structure of a compiled list
Last(l) == l[Len(l)]

Indices == 0..(Len(stmt_list) - 1)

\* The FnEnd that closes the FnBegin at s, read off the statement kinds alone:
\* the first FnEnd after s (FnBegin does not nest).
HasEnd(s) == \E e \in Indices : e > s /\ At(stmt_list, e).t = "FnEnd"

MatchingEnd(s) ==
    CHOOSE e \in Indices :
        /\ e > s
        /\ At(stmt_list, e).t = "FnEnd"
        /\ \A f \in Indices : (f > s /\ At(stmt_list, f).t = "FnEnd") => e <= f

\* k is an instruction of a closed sub: after its FnBegin, up to its FnEnd.
InSub(k) ==
    \E s \in Indices :
        /\ At(stmt_list, s).t = "FnBegin"
        /\ HasEnd(s)
        /\ s < k
        /\ k <= MatchingEnd(s)

\* The body of the sub a Call at site c names: the instructions strictly
\* between the registered FnBegin and its FnEnd.
Registered(c) == At(stmt_list, c).name \in DOMAIN fns

SubStart(c) == fns[At(stmt_list, c).name]

BodyOf(c) == (SubStart(c) + 1)..(MatchingEnd(SubStart(c)) - 1)

CallsClosedSub(c) == Registered(c) /\ HasEnd(SubStart(c))

NoCallInBody(c) == \A k \in BodyOf(c) : At(stmt_list, k).t # "Call"

Sites == 0..(MaxStmts - 1)

\* ------------------------------------------------------------------ C1
\* The FnEnd executed first after a Call made outside every sub body returns
\* to the instruction after that Call, with the slot empty and every
\* instruction of the called body executed once.
ReturnsToCaller(c) ==
    /\ phase' = "run"
    /\ i' = c + 1
    /\ ret_idx' = {}
    /\ \A k \in BodyOf(c) : hits'[k] = 1

\* C1 as stated: for ANY program in which sub A is defined and closed and
\* `call A` occurs outside every sub body, the Call runs A's body once and
\* control resumes right after the Call with the slot empty.
C1_AnyClosedSubReturns ==
    [][ \A c \in Sites :
          (Running /\ Cur.t = "FnEnd" /\ pending /\ outer_call = {c}
              /\ CallsClosedSub(c))
          => ReturnsToCaller(c) ]_vars

\* C1 (amended): when sub A is defined and closed, A's body holds no Call and
\* `call A` occurs outside every sub body, executing that Call runs each
\* instruction of A's body exactly once, then control resumes at the
\* instruction right after the Call with the return-address slot empty; the
\* run ends exactly when the program counter has passed the end of the list.
C1_Pre(c) == pending /\ outer_call = {c} /\ CallsClosedSub(c) /\ NoCallInBody(c)

C1_CallReturn ==
    /\ [][ \A c \in Sites :
             (Running /\ Cur.t = "FnEnd" /\ C1_Pre(c)) => ReturnsToCaller(c) ]_vars
    /\ (phase = "run" /\ \E c \in Sites : C1_Pre(c))
          ~> (phase = "run" /\ ~pending /\ outer_call = {i - 1} /\ ret_idx = {})
    /\ [][ (phase = "run" /\ i >= Len(stmt_list)) => phase' = "done" ]_vars
    /\ [](phase = "done" => i >= Len(stmt_list))

\* C1 witness: `sub A; print; end; call A;` has run to its end: the body was
\* executed once, the Call returned and the counter passed the end.
C1_Witness ==
    /\ phase = "done"
    /\ \E c \in Indices :
         /\ outer_call = {c}
         /\ ~pending
         /\ CallsClosedSub(c)
         /\ NoCallInBody(c)
         /\ BodyOf(c) # {}
         /\ \A k \in BodyOf(c) : hits[k] = 1
         /\ i = c + 1
         /\ ret_idx = {}

C7_CallTargetsRegistered ==
    (phase \in {"run", "done", "panic"}) =>
        /\ \A k \in Indices : At(stmt_list, k).t = "Call" => Registered(k)
        /\ ~(phase = "panic" /\ Cur.t = "Call")

\* ------------------------------------------------------------------ C8
\* C8: a Call executed while the return-address slot is occupied overwrites
\* the earlier return address; a FnEnd that finds the slot empty ends the run
\* in the internal-consistency error state; and once an address has been
\* overwritten no FnEnd returns to it.
C8_SingleSlot ==
    /\ [][ (Running /\ Cur.t = "Call" /\ Registered(i) /\ ret_idx # {})
              => (ret_idx' = {i + 1} /\ overwritten' = ret_idx) ]_vars
    /\ [][ (Running /\ Cur.t = "FnEnd" /\ ret_idx = {})
              => (phase' = "panic" /\ i' = i) ]_vars
    /\ [][ (Running /\ Cur.t = "FnEnd" /\ overwritten # {})
              => (phase' = "panic" \/ i' \notin overwritten) ]_vars

\* C8 witness: after a nested call returned, the outer sub's FnEnd found the
\* slot empty and the run is in the error state.
C8_Witness ==
    /\ phase = "panic"
    /\ i < Len(stmt_list)
    /\ Cur.t = "FnEnd"
    /\ ret_idx = {}
    /\ overwritten # {}

\* ------------------------------------------------------------------ C3
GuardIs(b) ==
    /\ RunningC
    /\ CurI.t \in {"If", "ElIf"}
    /\ EvalCompExpr(CurI.cond, env).ok
    /\ EvalCompExpr(CurI.cond, env).b = b

\* C3 as stated: with the offsets the compiler stores and the rule
\* i += offset_to_next + 1, a false If/ElIf guard transfers control to the
\* ElIf or Else instruction that follows the branch, so that it is executed
\* (stated for programs whose blocks are all closed).
C3_FalseGuardReachesNextBranch ==
    [][ (GuardIs(FALSE) /\ waits_end_stack = <<>>
              /\ Kind(Closer(pc)) \in {"ElIf", "Else"})
           => pc' = Closer(pc) ]_vars

\* ------------------------------------------------------------------ C4
\* C4 as stated: of one if/elif/else chain, only the body of the first branch
\* whose guard is true (or the else body) is entered, and no guard after that
\* branch is evaluated (stated for programs whose blocks are all closed).
C4_OneBranchPerChain ==
    (cphase \in {"run", "done"} /\ waits_end_stack = <<>>) =>
        /\ \A p \in entered, q \in entered : ChainHead(p) = ChainHead(q) => p = q
        /\ \A p \in entered, q \in tested : ChainHead(p) = ChainHead(q) => q <= p

\* ------------------------------------------------------------------ C5
\* The program  let x be 0 asmut; while x < 1; modify x to 1; end; ...
LoopOnce ==
    /\ Len(insts) >= 5
    /\ At(insts, 1) = Inst("Let", "x", NoCond, 0, TRUE)
    /\ Kind(2) = "While"
    /\ At(insts, 2).cond = [lhs |-> Ident("x"), op |-> "<", rhs |-> Num(1)]
    /\ At(insts, 3) = Inst("Modify", "x", NoCond, 1, FALSE)
    /\ Kind(4) = "End"

\* C5: the End that closes a While returns to the While instruction; a While
\* whose guard is false continues right after its End; and the loop whose
\* guard is true at first and made false by the first iteration runs its body
\* exactly once (the guard is tested twice) before control is past the End.
C5_LoopRetest ==
    /\ [][ (RunningC /\ CurI.t = "End" /\ \E w \in PIdx :
                Kind(w) = "While" /\ HasCloser(w) /\ Closer(w) = pc)
              => (pc' \in PIdx /\ Kind(pc') = "While" /\ Closer(pc') = pc) ]_vars
    /\ [][ (RunningC /\ CurI.t = "While" /\ HasCloser(pc)
                /\ EvalCompExpr(CurI.cond, env).ok
                /\ ~EvalCompExpr(CurI.cond, env).b)
              => pc' = Closer(pc) + 1 ]_vars
    /\ []((LoopOnce /\ cphase \in {"run", "done"} /\ pc >= 5)
              => (execs[2] = 2 /\ execs[3] = 1 /\ execs[4] = 1))
    /\ []((LoopOnce /\ cphase = "run" /\ execs[4] = 1) => pc \notin {3, 4})

\* C5 witness: that loop has been left after one iteration.
C5_Witness ==
    /\ LoopOnce
    /\ cphase = "run"
    /\ pc = 5
    /\ execs[3] = 1
    /\ env["x"].value = 1

\* ------------------------------------------------------------------ C6
\* C6 as stated: compiling a Sub while any earlier Sub is still pending,
\* whatever other blocks were opened inside it, is fatal: no Sub instruction
\* is appended.
SubPending == \E k \in DOMAIN waits_end_stack : waits_end_stack[k].kind.t = "Sub"

C6_NestedSubRejected ==
    [][ (cphase = "compile" /\ SubPending)
           => ~(Len(insts') = Len(insts) + 1 /\ Last(insts').t = "Sub") ]_vars

\* ------------------------------------------------------------------ C9
\* The scanner stands on a '"' that opens a string literal, and no '"'
\* follows it on the line.
AtUnclosedQuote ==
    /\ Scanning
    /\ At(v, li) = "\""
    /\ \A k \in (li + 1)..(Len(v) - 1) : At(v, k) # "\""

\* C9 as stated: when a '"' opens a string literal that no later '"' on the
\* same line closes, lex returns the unterminated-string Error located at the
\* (row, column) of the opening quote.
C9_UnterminatedStringError ==
    [][ AtUnclosedQuote
           => (lphase' = "err"
               /\ lerr' = [kind |-> "UnterminatedStr", ch |-> "",
                           row |-> idx + 1, col |-> li + 1]) ]_vars

\* ------------------------------------------------------------------ C10
\* The scanner stands on a '!' or an '=' that no '=' follows: a character
\* that starts no token.
AtStrayBangOrEq ==
    /\ Scanning
    /\ At(v, li) \in {"!", "="}
    /\ ~(li + 1 < Len(v) /\ At(v, li + 1) = "=")

\* C10: at a '!' or '=' that forms no relational operator lex returns the
\* unexpected-character Error carrying that character and its 1-based
\* (row, column); the Error is the result, so no token list is returned; and
\* an unexpected-character Error is only ever returned for such a character
\* at that place of the input.
C10_UnexpectedCharError ==
    /\ [][ AtStrayBangOrEq
              => (lphase' = "err"
                  /\ lerr' = [kind |-> "UnexpectedChar", ch |-> At(v, li),
                              row |-> idx + 1, col |-> li + 1]) ]_vars
    /\ [][ lphase = "err" => lphase' = "err" ]_vars
    /\ []((lphase = "err" /\ lerr.kind = "UnexpectedChar")
              => (/\ lerr.row \in 1..Len(lines)
                  /\ lerr.col \in 1..Len(lines[lerr.row])
                  /\ lines[lerr.row][lerr.col] = lerr.ch
                  /\ lerr.ch \in {"!", "="}))

\* C10 witness: a stray '!' on the second line, after a token on that line,
\* has been reported.
C10_Witness ==
    /\ lphase = "err"
    /\ lerr = [kind |-> "UnexpectedChar", ch |-> "!", row |-> 2, col |-> 3]
    /\ Len(tks) >= 2

\* ------------------------------------------------------------------ C11
\* Every spelling of a keyword or an instruction, the plurals included.
ReservedSpellings ==
    {KeywordsTable[k].str : k \in DOMAIN KeywordsTable}
        \cup {InstsTable[k].str : k \in DOMAIN InstsTable}
        \cup {<<"d", "i", "c", "e", "s">>, <<"f", "a", "c", "e", "s">>}

\* The spellings of the reserved word a Key or Inst token names.
SpellingsOf(kind, name) ==
    IF kind = "Key"
    THEN {KeywordsTable[k].str : k \in {j \in DOMAIN KeywordsTable : KeywordsTable[j].name = name}}
            \cup (IF name = "Dice" THEN {<<"d", "i", "c", "e", "s">>} ELSE {})
            \cup (IF name = "Face" THEN {<<"f", "a", "c", "e", "s">>} ELSE {})
    ELSE {InstsTable[k].str : k \in {j \in DOMAIN InstsTable : InstsTable[j].name = name}}

\* The text of a line from a 1-based column on.
From(line, col) == SubSeq(line, col, Len(line))

\* w, in any letter case, stands at the start of text and is followed by
\* whitespace, ';' or the end of the line.
EndsWord(w, text) ==
    /\ IsItem(w, text)
    /\ Len(w) = Len(text) \/ text[Len(w) + 1] \in Whitespace \cup {";"}

\* The scanner is at a word that has a reserved word as a proper prefix
\* followed by an identifier character.
AtReservedPrefix ==
    /\ Scanning
    /\ \E w \in ReservedSpellings :
          /\ IsItem(w, vs)
          /\ Len(w) < Len(vs)
          /\ vs[Len(w) + 1] \notin Whitespace \cup RESERVED_CHARS

\* The whole word at the scanner: the longest run of identifier characters.
WholeWord ==
    LET rest == {k \in 1..Len(vs) : vs[k] \in Whitespace \cup RESERVED_CHARS}
        stop == IF rest = {} THEN Len(vs)
                ELSE (CHOOSE k \in rest : \A m \in rest : k <= m) - 1
    IN  SubSeq(vs, 1, stop)

LexedAsWholeIdent ==
    /\ lphase' = "scan"
    /\ li' = li + Len(WholeWord)
    /\ tks' = Append(tks, [loc |-> [row |-> idx + 1, col |-> li + 1],
                            item |-> [kind |-> "Ident", name |-> "",
                                      s |-> WholeWord, n |-> 0]])

\* C11 as stated: every word that has a reserved word as a proper prefix
\* followed by an identifier character is lexed as a single Ident token
\* containing the whole word.
C11_ReservedPrefixIsIdent ==
    [][ AtReservedPrefix => LexedAsWholeIdent ]_vars

\* C11 (amended): a Key or Inst token is produced only for a reserved
\* spelling, in any letter case, that is immediately followed by whitespace,
\* ';' or the end of the line; and a word that has a reserved word as a
\* proper prefix followed by an identifier character, and that is not itself
\* a reserved spelling so followed (the plurals "dices" and "faces"), is
\* lexed as a single Ident token containing the whole word.
C11_ReservedWords ==
    /\ [](\A k \in DOMAIN tks :
             tks[k].item.kind \in {"Key", "Inst"} =>
                \E w \in SpellingsOf(tks[k].item.kind, tks[k].item.name) :
                    EndsWord(w, From(lines[tks[k].loc.row], tks[k].loc.col)))
    /\ [][ (AtReservedPrefix /\ ~\E w \in ReservedSpellings : EndsWord(w, vs))
              => LexedAsWholeIdent ]_vars

\* C11 witness: "Bed" was lexed as one Ident, not as the keyword "be".
C11_Witness ==
    /\ lphase = "ok"
    /\ Len(tks) = 1
    /\ tks[1].item.kind = "Ident"
    /\ tks[1].item.s = <<"B", "e", "d">>

\* ------------------------------------------------------------------ C12
\* The operands as written, their values in the variables, and the
\* mathematical sum of the expression.
TermBound(t) == t.kind = "Num" \/ t.name \in DOMAIN call_stack

TermValue(t) == IF t.kind = "Num" THEN t.num ELSE call_stack[t.name].value

AllBound == \A k \in DOMAIN expr_src.terms : TermBound(expr_src.terms[k])

RECURSIVE SumOf(_)
SumOf(terms) ==
    IF terms = <<>> THEN 0 ELSE TermValue(Head(terms)) + SumOf(Tail(terms))

\* C12: an addition whose mathematical result exceeds the maximum
\* representable integer returns the overflow error (MAX + 1 in particular),
\* and a value that is returned is the mathematical result, never a wrapped
\* or saturated one.
C12_OverflowIsError ==
    ephase = "done" =>
        /\ (AllBound /\ SumOf(expr_src.terms) > UsizeMax)
              => (~eval_res.ok /\ eval_res.err = "OverFlow")
        /\ eval_res.ok
              => (AllBound /\ eval_res.v = SumOf(expr_src.terms)
                    /\ eval_res.v <= UsizeMax)

\* C12 witness: MAX + 1 was evaluated and gave the overflow error.
C12_Witness ==
    /\ ephase = "done"
    /\ expr_src = [terms |-> <<Num(UsizeMax), Num(1)>>, ops |-> <<"+">>]
    /\ ~eval_res.ok
    /\ eval_res.err = "OverFlow"

\* ------------------------------------------------------------------ C13
\* C13 as stated, for the sources `a + b * c` of literals (`1 + 2 * 3` among
\* them): `*` binds tighter than `+`, so the expression is compiled and
\* evaluates to a + (b * c) whenever that value is representable.
C13_MulBindsTighter ==
    \A a \in {1, 2, 3}, b \in {1, 2, 3}, c \in {1, 2, 3} :
        (/\ ephase \in {"done", "panic"}
         /\ expr_src = [terms |-> <<Num(a), Num(b), Num(c)>>, ops |-> <<"+", "*">>]
         /\ a + (b * c) <= UsizeMax)
            => (ephase = "done" /\ eval_res = Ok(a + (b * c)))

\* ---------------------------------------------------------------- C15
\* The statement of this step is compiled: the step leaves the compile phase
\* or stays in it, and stmt' is the statement it was given.
CompilingA(rules) == cphase = "compile" /\ stmt'.rule \in rules

TopIsIfOrElIf ==
    /\ waits_end_stack # <<>>
    /\ Top(waits_end_stack).kind.t \in {"If", "ElIf"}

NothingEmitted == insts' = insts /\ waits_end_stack' = waits_end_stack /\ subs' = subs

\* C15: compiling an ElIf or an Else is fatal unless the top of the stack of
\* pending blocks is an If or an ElIf (so under a While, a Sub or an Else, or
\* with an empty stack, it is fatal), compiling an End is fatal when the stack
\* is empty, and after the fatal error nothing more happens: no instruction is
\* emitted and no Program is produced or run.
C15_StrayClosersRejected ==
    /\ [][(CompilingA({"ElIf", "Else"}) /\ ~TopIsIfOrElIf)
            => (cphase' = "exit" /\ NothingEmitted)]_vars
    /\ [][(CompilingA({"End"}) /\ waits_end_stack = <<>>)
            => (cphase' = "exit" /\ NothingEmitted)]_vars
    /\ [][cphase = "exit" => UNCHANGED vars]_vars

\* An Else directly under a While was refused.
C15_Witness ==
    /\ cphase = "exit"
    /\ stmt.rule = "Else"
    /\ waits_end_stack # <<>>
    /\ Top(waits_end_stack).kind.t = "While"

\* ---------------------------------------------------------------- C16
\* The End that closes the block whose body starts at k, found by counting
\* the blocks opened and closed from there on; -1 when the block is not closed.
RECURSIVE MatchEnd(_, _)
MatchEnd(k, depth) ==
    IF k >= Len(insts) THEN -1
    ELSE IF Kind(k) \in {"Sub", "While", "If"} THEN MatchEnd(k + 1, depth + 1)
    ELSE IF Kind(k) = "End"
         THEN IF depth = 0 THEN k ELSE MatchEnd(k + 1, depth - 1)
    ELSE MatchEnd(k + 1, depth)

EndOf(p) == MatchEnd(p + 1, 0)

\* The Whiles whose body holds the instruction at `at`, by the text alone.
WhilesAround(at) ==
    {p \in PIdx : /\ Kind(p) = "While"
                  /\ p < at
                  /\ (EndOf(p) = -1 \/ at < EndOf(p))}

Innermost(at) == CHOOSE w \in WhilesAround(at) : \A q \in WhilesAround(at) : q <= w

AtBreak == cphase = "run" /\ pc < Len(insts) /\ Kind(pc) = "Break"

\* C16: a Break that is executed in no While is a fatal error, and a Break
\* executed in a While goes to the instruction right after the End of the
\* innermost While around it, and the run goes on from there.
C16_BreakPairing ==
    /\ [][(AtBreak /\ WhilesAround(pc) = {}) => cphase' = "error"]_vars
    /\ [][(AtBreak /\ WhilesAround(pc) # {} /\ EndOf(Innermost(pc)) # -1)
            => (pc' = EndOf(Innermost(pc)) + 1 /\ cphase' = "run")]_vars

\* A Break in a loop in a loop was executed, and control stands right after
\* the End of the inner loop, still inside the outer one.
C16_Witness ==
    /\ cphase = "run"
    /\ \E b \in PIdx :
          /\ Kind(b) = "Break"
          /\ execs[b] >= 1
          /\ Cardinality(WhilesAround(b)) >= 2
          /\ EndOf(Innermost(b)) # -1
          /\ pc = EndOf(Innermost(b)) + 1
          /\ \A w \in WhilesAround(b) \ {Innermost(b)} : pc <= EndOf(w)

\* A Break outside every loop was executed and stopped the run.
C16_WitnessUnpaired ==
    /\ cphase = "error"
    /\ pc < Len(insts)
    /\ Kind(pc) = "Break"
    /\ execs[pc] >= 1
    /\ WhilesAround(pc) = {}

\* ---------------------------------------------------------------- C17
\* Every key of the table is the name of the Sub at the index it maps to.
KeysAreSubs ==
    \A n \in DOMAIN subs :
        /\ subs[n] >= 1
        /\ subs[n] < Len(insts)
        /\ Kind(subs[n]) = "Sub"
        /\ At(insts, subs[n]).name = n

\* Every Sub is registered under its name, at its own index.
SubsAreKeys ==
    \A p \in PIdx :
        Kind(p) = "Sub" =>
            /\ At(insts, p).name \in DOMAIN subs
            /\ subs[At(insts, p).name] = p

\* C17: compiling a Sub whose name is already in the table is fatal, and at
\* every point of the compilation and in the Program it returns the table is
\* exact: a key maps to an index >= 1 holding the Sub of that name, and every
\* Sub instruction is registered under its name at its own index.
C17_SubTableExact ==
    /\ [][(CompilingA({"Sub"}) /\ stmt'.name \in DOMAIN subs)
            => (cphase' = "exit" /\ NothingEmitted)]_vars
    /\ [](KeysAreSubs /\ SubsAreKeys)

\* A second Sub of a name was refused at top level, the first still in the
\* table.
C17_Witness ==
    /\ cphase = "exit"
    /\ stmt.rule = "Sub"
    /\ stmt.name \in DOMAIN subs
    /\ waits_end_stack = <<>>
    /\ KeysAreSubs

\* ---------------------------------------------------------------- C18
NoReservedTarget ==
    \A p \in PIdx :
        Kind(p) \in {"Let", "Modify"} => ~StartsWithUnderscore(At(insts, p).name)

\* C18: compiling a Let or a Modify whose name begins with `_` is fatal, so
\* no instruction list of the compiler, and no Program it returns, holds a Let
\* or a Modify of such a name.
C18_ReservedIdentifiers ==
    /\ [][(CompilingA({"Let", "Modify"}) /\ StartsWithUnderscore(stmt'.name))
            => (cphase' = "exit" /\ NothingEmitted)]_vars
    /\ []NoReservedTarget

\* After a Let of an ordinary name, a Modify of a reserved name was refused.
C18_Witness ==
    /\ cphase = "exit"
    /\ stmt.rule = "Modify"
    /\ StartsWithUnderscore(stmt.name)
    /\ \E p \in PIdx : Kind(p) = "Let"

\* ---------------------------------------------------------------- C19
Openers == {"Sub", "While", "If", "ElIf", "Else"}

\* The first instruction from k on, outside the blocks opened from there on,
\* whose kind is one of `closers`; -1 when there is none.
RECURSIVE MatchCloser(_, _, _)
MatchCloser(k, depth, closers) ==
    IF k >= Len(insts) THEN -1
    ELSE IF depth = 0 /\ Kind(k) \in closers THEN k
    ELSE IF Kind(k) \in {"Sub", "While", "If"} THEN MatchCloser(k + 1, depth + 1, closers)
    ELSE IF Kind(k) = "End" THEN MatchCloser(k + 1, depth - 1, closers)
    ELSE MatchCloser(k + 1, depth, closers)

\* The closer that structurally matches the opener at p: the next ElIf, Else
\* or End of the chain for an If or ElIf, the matching End for the others.
CloserOf(p) ==
    MatchCloser(p + 1, 0, IF Kind(p) \in {"If", "ElIf"}
                          THEN {"ElIf", "Else", "End"}
                          ELSE {"End"})

ProgramProduced == cphase \in {"run", "done", "error"}

\* C19: in every Program the compiler returns, each Sub, While, If, ElIf and
\* Else at index p carries an offset k >= 1 with p + k inside the instruction
\* list and the instruction at p + k the closer that structurally matches it.
C19_OffsetsReachClosers ==
    ProgramProduced =>
        \A p \in PIdx :
            Kind(p) \in Openers =>
                /\ At(insts, p).offset >= 1
                /\ p + At(insts, p).offset < Len(insts)
                /\ p + At(insts, p).offset = CloserOf(p)

\* What the compiler does ensure: an opener whose closer has been compiled
\* carries the distance to it, and an opener without one still carries 0.
ClosedOffsetsExact ==
    \A p \in PIdx :
        Kind(p) \in Openers =>
            At(insts, p).offset = (IF CloserOf(p) = -1 THEN 0 ELSE CloserOf(p) - p)

\* ---------------------------------------------------------------- C20
\* A closer is compiled and accepted in this step.
CloserAccepted == CompilingA({"ElIf", "Else", "End"}) /\ cphase' = "compile"

Popped == Top(waits_end_stack).index

\* C20: an accepted ElIf, Else or End appends exactly one instruction and, of
\* the instructions already emitted, changes only the opener popped from the
\* stack of pending blocks, and of it only the offset; and whenever the offset
\* of an instruction changes it was 0 and becomes positive, so it is written
\* at most once.
C20_BackpatchFrame ==
    /\ [][CloserAccepted =>
            /\ waits_end_stack # <<>>
            /\ Len(insts') = Len(insts) + 1
            /\ Kind(Popped) \in Openers
            /\ \A k \in 0..(Len(insts) - 1) :
                   k # Popped => At(insts', k) = At(insts, k)
            /\ At(insts', Popped) =
                   [At(insts, Popped) EXCEPT !.offset = At(insts', Popped).offset]]_vars
    /\ [][insts' # insts =>
             \A k \in 0..(Len(insts) - 1) :
                (k < Len(insts') /\ At(insts', k).offset # At(insts, k).offset)
                   => (At(insts, k).offset = 0 /\ At(insts', k).offset > 0)]_vars

\* An End has just closed a block with a body while another block is still
\* pending, its offset still 0.
C20_Witness ==
    /\ cphase = "compile"
    /\ stmt.rule = "End"
    /\ waits_end_stack # <<>>
    /\ At(insts, Top(waits_end_stack).index).offset = 0
    /\ \E p \in PIdx :
          /\ Kind(p) \in {"While", "If"}
          /\ At(insts, p).offset >= 2
          /\ p + At(insts, p).offset = Len(insts) - 1

\* ---------------------------------------------------------------- C21
\* C21: a Program is returned only when the stack of pending blocks is empty
\* at the end of the input, so that no returned Program holds a Sub, While,
\* If, ElIf or Else whose offset is still 0.
C21_ClosedBlocksOnly ==
    ProgramProduced =>
        /\ waits_end_stack = <<>>
        /\ \A p \in PIdx : Kind(p) \in Openers => At(insts, p).offset # 0

\* ---------------------------------------------------------------- C22
\* The instruction a statement is compiled to, as it is when emitted.
InstOf(st) == Inst(st.rule, st.name, st.cond, st.val, st.is_mut)

\* C22: as long as no statement was refused, after n statements other than
\* comments the instruction list has n + 1 elements, the sentinel is at index
\* 0, the instruction at index j (1 <= j <= n) is the one the j-th statement
\* compiles to (its offset apart, which a later closer sets), and so no
\* block opener is at index 0.
C22_OneInstPerStatement ==
    cphase # "exit" =>
        /\ Len(insts) = Len(stmts) + 1
        /\ At(insts, 0) = InstIll
        /\ \A j \in 1..Len(stmts) :
               [At(insts, j) EXCEPT !.offset = 0] = InstOf(stmts[j])
        /\ Kind(0) \notin Openers

\* A comment has just been read after three or more statements, among them
\* a Break and an opener closed around a body.
C22_Witness ==
    /\ cphase = "compile"
    /\ stmt.rule = "Comment"
    /\ Len(stmts) >= 3
    /\ \E p \in PIdx : Kind(p) \in Openers /\ At(insts, p).offset >= 2
    /\ \E p \in PIdx : Kind(p) = "Break"

\* ---------------------------------------------------------------- C23
\* C23: lex never aborts: whatever the text, it ends with Lexed or with an
\* Error; in particular a run of digits whose value is out of the range of
\* the integer type, and a numeric character that is not an ASCII digit,
\* give an Error or a token.
C23_LexTotal == lphase # "panic"

\* The abort at a number: the scan stands at a numeric character.
PanicAtNumber ==
    /\ lphase = "panic"
    /\ idx < Len(lines)
    /\ li < Len(v)
    /\ IsNumeric(At(v, li))

\* ---------------------------------------------------------------- C24
LineOf(t) == lines[t.loc.row]

\* The text of the line of a token from the column of the token on.
TextAt(t) == From(LineOf(t), t.loc.col)

OpSpelling(name) ==
    LET all == AriOpsTable \o RelOpsTable
    IN  all[CHOOSE k \in DOMAIN all : all[k].name = name].str

\* The length of the longest sequence of a set of sequences, 0 if empty.
Longest(S) == IF S = {} THEN 0 ELSE CHOOSE n \in {Len(w) : w \in S} : \A w \in S : Len(w) <= n

\* The number of characters of the line a token stands for.
Extent(t) ==
    CASE t.item.kind = "Str" -> Len(t.item.s) + 2
      [] t.item.kind = "Ident" -> Len(t.item.s)
      [] t.item.kind = "Num" ->
            ScanWhile([k \in DOMAIN LineOf(t) |-> IsNumeric(LineOf(t)[k])], t.loc.col - 1)
                - (t.loc.col - 1)
      [] t.item.kind \in {"Key", "Inst"} ->
            Longest({w \in SpellingsOf(t.item.kind, t.item.name) : EndsWord(w, TextAt(t))})
      [] t.item.kind = "Ops" -> Len(OpSpelling(t.item.name))
      [] OTHER -> 1

\* The text of the token is what stands in its line at its column.
TextMatches(t) ==
    CASE t.item.kind = "Str" ->
            /\ Len(TextAt(t)) >= Len(t.item.s) + 2
            /\ TextAt(t)[1] = "\""
            /\ SubSeq(TextAt(t), 2, Len(t.item.s) + 1) = t.item.s
            /\ TextAt(t)[Len(t.item.s) + 2] = "\""
      [] t.item.kind = "Ident" ->
            /\ t.item.s # <<>>
            /\ SubSeq(TextAt(t), 1, Len(t.item.s)) = t.item.s
      [] t.item.kind = "Num" ->
            /\ Extent(t) >= 1
            /\ t.item.n = ParseNum(SubSeq(TextAt(t), 1, Extent(t)))
      [] t.item.kind \in {"Key", "Inst"} -> Extent(t) >= 1
      [] t.item.kind = "Ops" -> IsItem(OpSpelling(t.item.name), TextAt(t))
      [] OTHER ->
            /\ TextAt(t)[1] \in DOMAIN SingleCharItems
            /\ SingleCharItems[TextAt(t)[1]] = t.item.kind

\* C24: in every Lexed result each token's row is between 1 and the number
\* of lines, its column is the 1-based index in that line at which the text
\* of the token starts, and a token comes after the one before it: on a
\* later row, or on the same row at or after the end of the one before, so
\* that tokens are in strictly increasing (row, column) order and never
\* overlap, and lines[row - 1] exists for every token.
C24_TokenLocations ==
    lphase = "ok" =>
        /\ \A k \in DOMAIN tks :
              /\ tks[k].loc.row \in 1..Len(lines)
              /\ tks[k].loc.col \in 1..Len(LineOf(tks[k]))
              /\ TextMatches(tks[k])
        /\ \A k \in 1..(Len(tks) - 1) :
              \/ tks[k].loc.row < tks[k + 1].loc.row
              \/ /\ tks[k].loc.row = tks[k + 1].loc.row
                 /\ tks[k].loc.col < tks[k + 1].loc.col
                 /\ tks[k].loc.col + Extent(tks[k]) <= tks[k + 1].loc.col

\* A Lexed result with tokens on two rows and, on one row, a token that
\* starts right where a token of two or more characters ends.
C24_Witness ==
    /\ lphase = "ok"
    /\ \E j, k \in DOMAIN tks : tks[j].loc.row < tks[k].loc.row
    /\ \E k \in 1..(Len(tks) - 1) :
          /\ tks[k].loc.row = tks[k + 1].loc.row
          /\ Extent(tks[k]) >= 2
          /\ tks[k + 1].loc.col = tks[k].loc.col + Extent(tks[k])

\* ---------------------------------------------------------------- C25
\* The character at column c of row r is part of a token.
Covered(r, c) ==
    \E k \in DOMAIN tks :
        /\ tks[k].loc.row = r
        /\ tks[k].loc.col <= c
        /\ c < tks[k].loc.col + Extent(tks[k])

\* The columns of row r at which a '#' stands outside every token.
CommentAt(r) == {c \in 1..Len(lines[r]) : lines[r][c] = "#" /\ ~Covered(r, c)}

InComment(r, c) == \E h \in CommentAt(r) : h <= c

TwoCharOps == {k \in DOMAIN RelOpsTable : Len(RelOpsTable[k].str) = 2}

\* C25: the scan of a line ends at a '#' met where a token would start, so a
\* Lexed result has no token at or after such a '#' on its row; a '#' inside
\* a string literal is part of the string; and where `==`, `!=`, `<=` or `>=`
\* stands outside comments and not inside a token that starts before it (a
\* string, or the operator before it as in `>===`), there is the one token
\* of that operator, no `<` or `>` token being followed by a `=`.
C25_CommentsAndOperators ==
    /\ [][(Scanning /\ At(v, li) = "#")
            => (tks' = tks /\ idx' = idx + 1 /\ li' = 0 /\ lphase' = lphase)]_vars
    /\ [](lphase = "ok" =>
            /\ \A r \in DOMAIN lines : \A h \in CommentAt(r) :
                  \A k \in DOMAIN tks : tks[k].loc.row = r => tks[k].loc.col < h
            /\ \A k \in DOMAIN tks :
                  tks[k].item.kind = "Str" => TextMatches(tks[k])
            /\ \A r \in DOMAIN lines : \A c \in 1..(Len(lines[r]) - 1) :
                  \A o \in TwoCharOps :
                     (/\ SubSeq(lines[r], c, c + 1) = RelOpsTable[o].str
                      /\ ~InComment(r, c)
                      /\ ~\E k \in DOMAIN tks : /\ tks[k].loc.row = r
                                                 /\ tks[k].loc.col < c
                                                 /\ c < tks[k].loc.col + Extent(tks[k]))
                     => \E k \in DOMAIN tks :
                           /\ tks[k].loc = [row |-> r, col |-> c]
                           /\ tks[k].item.kind = "Ops"
                           /\ tks[k].item.name = RelOpsTable[o].name
            /\ \A k \in DOMAIN tks :
                  (tks[k].item.kind = "Ops"
                     /\ tks[k].item.name \in {"LessThan", "GreaterThan"}
                     /\ Len(TextAt(tks[k])) >= 2)
                  => TextAt(tks[k])[2] # "=")

\* A Lexed result: a string that holds a '#', then `<=` as one token, a
\* number, and a comment that hides a ';'.
C25_Witness ==
    /\ lphase = "ok"
    /\ \E k \in DOMAIN tks : tks[k].item.kind = "Str" /\ tks[k].item.s = <<"#">>
    /\ \E k \in DOMAIN tks : tks[k].item.kind = "Ops" /\ tks[k].item.name = "LessEqual"
    /\ \E r \in DOMAIN lines : \E h \in CommentAt(r) :
          \E c \in (h + 1)..Len(lines[r]) : lines[r][c] = ";"

\* ---------------------------------------------------------------- C26
\* The first term, from the left, that is an identifier without a binding.
FirstUnbound ==
    LET k == CHOOSE j \in DOMAIN expr_src.terms :
                 /\ ~TermBound(expr_src.terms[j])
                 /\ \A m \in 1..(j - 1) : TermBound(expr_src.terms[m])
    IN  expr_src.terms[k].name

\* C26: the value of a chain a1 + ... + an is the exact sum when every
\* identifier is bound and the sum is representable, the overflow error when
\* every identifier is bound and the sum is not representable, and otherwise
\* identifier-not-found with the name of the first unbound identifier from the
\* left; and no step changes the environment.
C26_ChainEvaluation ==
    /\ [](ephase = "done" =>
            IF AllBound
            THEN IF SumOf(expr_src.terms) <= UsizeMax
                 THEN eval_res = Ok(SumOf(expr_src.terms))
                 ELSE eval_res = OverFlow
            ELSE eval_res = IdentNotFound(FirstUnbound))
    /\ [][call_stack' = call_stack]_vars

\* MAX + y + x with nothing bound was evaluated: y is reported, not x and
\* not an overflow.
C26_Witness ==
    /\ ephase = "done"
    /\ call_stack = <<>>
    /\ expr_src.terms = <<Num(UsizeMax), Ident("y"), Ident("x")>>
    /\ eval_res = IdentNotFound("y")

\* ---------------------------------------------------------------- C27
\* No Call of the program lies inside a sub body.
NoCallInsideSubs == \A k \in Indices : At(stmt_list, k).t = "Call" => ~InBody(k)

\* The Call at k lies in the body of the sub whose name it calls.
InBodyOfSub(s, k) ==
    /\ At(stmt_list, s).t = "FnBegin"
    /\ s < k
    /\ (Closed(s) => k < s + At(stmt_list, s).offset_to_end)

CallsOwnSub(k) ==
    /\ At(stmt_list, k).t = "Call"
    /\ \E s \in Indices :
         InBodyOfSub(s, k) /\ At(stmt_list, s).name = At(stmt_list, k).name

SomeSubCallsItself == \E k \in Indices : CallsOwnSub(k)

\* C27: the run of every compiled program in which no Call lies inside a sub
\* body eventually passes the end of the instruction list and returns (each
\* key-press wait returning), and the run of a program in which a sub body
\* calls its own sub never does.
C27_Termination ==
    /\ (phase = "run" /\ NoCallInsideSubs) ~> (phase = "done")
    /\ [](phase = "done" => ~SomeSubCallsItself)

\* What does hold: with every Call naming a registered sub the first half is
\* true, and a run that executes a Call to the sub it is in never returns.
C27_TerminatesWhenRegistered ==
    (phase = "run" /\ NoCallInsideSubs
        /\ \A k \in Indices : At(stmt_list, k).t = "Call" => Registered(k))
      ~> (phase = "done")

C27_EnteredRecursionLoops ==
    []((Running /\ CallsOwnSub(i) /\ Registered(i)
           /\ InBodyOfSub(fns[Cur.name], i))
         => [](phase # "done"))

\* `call A;` alone stopped at the Call; `sub A; call A; end;` ran to its end.
C27_StoppedAtCall ==
    phase = "panic" /\ NoCallInsideSubs /\ Cur.t = "Call"

C27_UnreachedRecursionEnds ==
    phase = "done" /\ SomeSubCallsItself

\* ---------------------------------------------------------------- C28
\* The three outcomes of one iteration of the scan loop.
IndexGrows == lphase' = "scan" /\ idx' = idx /\ li' > li

LineEndsAtHash == lphase' = "scan" /\ At(v, li) = "#" /\ idx' = idx + 1

ErrorReturned == lphase' = "err"

\* v[i] was read with i = v.len(): the read after the string loop.
ReadPastEnd ==
    /\ lphase = "panic"
    /\ At(v, li) = "\""
    /\ \A k \in (li + 1)..(Len(v) - 1) : At(v, k) # "\""

\* C28: every iteration of the scan loop makes the scan index grow by at
\* least one, or ends the line at a '#', or returns an Error; the lexer
\* therefore leaves its loops on every input; and no character is read at an
\* index that is not below the line's length.
C28_LexerProgress ==
    /\ [][Scanning => (IndexGrows \/ LineEndsAtHash \/ ErrorReturned)]_vars
    /\ (lphase = "scan") ~> (lphase # "scan")
    /\ [](~ReadPastEnd)

\* What does hold: an iteration that does none of the three panics, and the
\* loops are left on every input.
C28_ProgressOrPanic ==
    /\ [][Scanning => (IndexGrows \/ LineEndsAtHash \/ ErrorReturned
                          \/ lphase' = "panic")]_vars
    /\ (lphase = "scan") ~> (lphase # "scan")
    /\ [](Scanning => li < Len(v))

====
